---------------------------- MODULE Spec2Model ----------------------------
(***************************************************************************)
(* A model of the user-level Homa API (src/homa_api.c) running against an  *)
(* in-memory transport engine.                                             *)
(*                                                                         *)
(* The library functions homa_send, homa_sendv, homa_reply, homa_replyv,   *)
(* homa_abort, homa_reply_connected, homa_send_connected and homa_peeloff  *)
(* are translated from the source: each builds its control block and       *)
(* msghdr, makes one call to sendmsg / ioctl / getsockopt, and hands the   *)
(* result back.  The primitives themselves (sendmsg, ioctl(HOMAIOCABORT),  *)
(* getsockopt(SO_HOMA_PEELOFF), recvmsg and the network) belong to the     *)
(* transport engine, which is not part of the library source; they are     *)
(* modelled from the specification's description of the engine boundary.   *)
(***************************************************************************)
EXTENDS Integers, Sequences, FiniteSets, Bags, TLC

\* ------------------------------------------------------------------ bounds

\* Total number of requests the engine accepts in one run.
MaxRpcs == 2

\* ------------------------------------------------------- the small universe

NULL == "NULL"

\* Transport addresses: two client hosts and one server host.
Hosts == {"A", "B", "S"}

\* sizeof(struct sockaddr_in): the only address length the engine accepts.
SockaddrLen == 16

\* Address lengths a caller may pass.
AddrLens == {0, SockaddrLen}

\* The listening socket each host opens at start, and the descriptors the
\* engine hands out for peeled-off sockets.
ListenFd == [h \in Hosts |-> CASE h = "A" -> 1 [] h = "B" -> 2 [] h = "S" -> 3]
ChildFds == {4, 5, 6, 7, 8, 9}
Fds == {1, 2, 3} \cup ChildFds

\* A descriptor that names no open socket.
BadFd == {0}

\* Completion cookies, request and response buffers, abort error values.
Cookies == {7, 99}
ReqBufs == {<<1, 2>>}
RespBufs == {<<3, 4>>}
Errors == {0, 5}

\* The same buffers as scatter/gather lists of one-byte chunks.
RECURSIVE Chunks(_, _)
Chunks(buf, n) == IF n = 0 THEN <<>> ELSE Append(Chunks(buf, n - 1), [iov_base |-> <<buf[n]>>, iov_len |-> 1])
ReqIovs == {Chunks(b, Len(b)) : b \in ReqBufs}
RespIovs == {Chunks(b, Len(b)) : b \in RespBufs}
Ids == 0 .. MaxRpcs

VARIABLES
  socks,      \* engine: open sockets, fd -> [host, peer]; peer = NULL: listening
  observed,   \* engine: per socket, the peer addresses recvmsg has returned
  nextId,     \* engine: per host, the next RpcId the allocator hands out
  crpcs,      \* engine: client RPCs (requests issued here, outcome not yet received)
  srpcs,      \* engine: server RPCs (requests arrived here, no reply sent yet)
  net,        \* messages in flight
  surfaced,   \* bag of everything recvmsg has returned to the application
  ret,        \* the library call made in the latest step, with what it returned
  sent,       \* history: the requests accepted, with the caller's arguments
  destroyed,  \* history: the active client RPCs that abort calls with error 0 named,
              \* each with the id argument of the call (0: the abort of all)
  aborted,    \* history: the active client RPCs that abort calls with an error named
  thr         \* per thread inside homa_send: where it is, and its local variables

vars == <<socks, observed, nextId, crpcs, srpcs, net, surfaced, ret, sent, destroyed, aborted, thr>>

history == <<sent, destroyed, aborted>>

engine == <<socks, observed, nextId, crpcs, srpcs, net>>

\* ------------------------------------------------------------ data shapes

\* struct homa_sendmsg_args as the library fills it in.
SendControl(id, completion_cookie) == [id |-> id, completion_cookie |-> completion_cookie]

\* struct iovec and struct msghdr as the library fills them in.
IoVec(base, len) == [iov_base |-> base, iov_len |-> len]

\* A msghdr whose msg_control is not pointed at the caller's args.
MsgHdr_nocontrol(name, namelen, iov, iovlen, control, controllen) == [msg_name |-> name, msg_namelen |-> namelen, msg_iov |-> iov, msg_iovlen |-> iovlen, msg_control |-> [id |-> 0, completion_cookie |-> 0], msg_controllen |-> controllen]

MsgHdr(name, namelen, iov, iovlen, control, controllen) == [msg_name |-> name, msg_namelen |-> namelen, msg_iov |-> iov, msg_iovlen |-> iovlen, msg_control |-> control, msg_controllen |-> controllen]

\* A library call that reports success whatever the primitive returned.
Returned_swallow(op, sockfd, dest, id, error, idp, r, idout) == [op |-> op, sock |-> sockfd, dest |-> dest, id |-> id, error |-> error, idp |-> idp, rc |-> IF r.rc < 0 THEN 0 ELSE r.rc, errno |-> "", idout |-> idout]

\* What a library call hands back: the primitive's return value, and errno,
\* which the primitive sets on failure and the library never touches (errno is
\* read only after a failure, and is kept here only then).  op, sock, dest and
\* id name the call: the library function and the socket, address and id
\* arguments it was given; error is homa_abort's error argument, and idp tells
\* whether the id argument of homa_send and homa_sendv was a non-NULL pointer.
\* idout is the content, after the call, of the caller's uint64_t that pointer
\* is for.
Returned(op, sockfd, dest, id, error, idp, r, idout) == [op |-> op, sock |-> sockfd, dest |-> dest, id |-> id, error |-> error, idp |-> idp, rc |-> r.rc, errno |-> IF r.rc < 0 THEN r.errno ELSE "", idout |-> idout]

\* No library call was made in the latest step.
NoCall == [op |-> "", sock |-> 0, dest |-> NULL, id |-> 0, error |-> 0, idp |-> FALSE, rc |-> 0, errno |-> "", idout |-> 0]

\* What the caller's uint64_t holds before a call: any value; one that is no
\* RpcId of the run shows whether the call wrote to it.
Stale == {77}

\* History of an accepted request: the socket, the id the engine assigned, and
\* the destination, cookie and message the caller passed.
Sent(r, sockfd, dest, cookie, data) == IF r.rc >= 0 /\ r.nextId /= nextId THEN sent \cup {[sock |-> sockfd, id |-> r.args.id, dest |-> dest, cookie |-> cookie, payload |-> data]} ELSE sent

\* The keys <<socket, id>> of the client RPCs active now that abort(id), or
\* abort(0) for all of the socket, names.
Named(sockfd, id) == {<<q.sock, q.id>> : q \in {x \in crpcs : x.sock = sockfd /\ (id = 0 \/ x.id = id)}}


NoCtl == [id |-> 0, completion_cookie |-> 0]

\* ------------------------------------------------- the transport engine

\* The bytes a msghdr's scatter/gather list describes: the first iovlen
\* elements, iov_len bytes of each, concatenated.
RECURSIVE Gather(_, _)
Gather(iov, n) == IF n = 0 THEN <<>> ELSE Gather(iov, n - 1) \o SubSeq(iov[n].iov_base, 1, iov[n].iov_len)

\* The socket of host dst that a message from src is queued on: the socket
\* peeled off for src when there is one, the host's listening socket otherwise.
RouteSock(dst, src) == IF \E fd \in DOMAIN socks : socks[fd].host = dst /\ socks[fd].peer = src THEN CHOOSE fd \in DOMAIN socks : socks[fd].host = dst /\ socks[fd].peer = src ELSE ListenFd[dst]

\* Number of requests accepted so far, over all hosts, under allocator ids.
Issued(ids) == (ids["A"] - 1) + (ids["B"] - 1) + (ids["S"] - 1)

\* A client RPC of the engine is active from the moment its request is
\* accepted until its outcome is returned by recvmsg or it is destroyed.
ActiveClient(sockfd, id) == \E r \in crpcs : r.sock = sockfd /\ r.id = id

\* A server RPC awaiting its reply: surfaced by recvmsg, not yet answered.
ActiveServer(sockfd, peer, id) == \E r \in srpcs : r.sock = sockfd /\ r.peer = peer /\ r.id = id /\ r.state = "inservice"

\* The outcome of a primitive: return code, errno, the control block as the
\* engine leaves it, and the engine state after the call.
Outcome(rc, errno, args, c, s, n, ids, sk) == [rc |-> rc, errno |-> errno, args |-> args, crpcs |-> c, srpcs |-> s, net |-> n, nextId |-> ids, socks |-> sk]

Rejected(errno, args) == Outcome(-1, errno, args, crpcs, srpcs, net, nextId, socks)

\* The message-send primitive.  A control block with id 0 starts a new RPC:
\* the allocator assigns the id and writes it into the control block.  A
\* non-zero id is a response to the request with that id from that peer; when
\* no such request awaits a reply the call does nothing and succeeds.
sendmsg(sockfd, hdr) ==
  LET args == hdr.msg_control
      me   == socks[sockfd].host
      dest == IF hdr.msg_name = NULL THEN socks[sockfd].peer ELSE hdr.msg_name
      data == Gather(hdr.msg_iov, hdr.msg_iovlen)
      id   == nextId[me]
  IN  IF sockfd \notin DOMAIN socks THEN Rejected("EBADF", args)
      ELSE IF hdr.msg_name = NULL /\ socks[sockfd].peer = NULL THEN Rejected("EDESTADDRREQ", args)
      ELSE IF hdr.msg_name /= NULL /\ (hdr.msg_namelen /= SockaddrLen \/ hdr.msg_name \notin Hosts) THEN Rejected("EINVAL", args)
      ELSE IF args.id = 0
        THEN Outcome(0, "", [args EXCEPT !.id = id],
                     crpcs \cup {[sock |-> sockfd, host |-> me, id |-> id, peer |-> dest, cookie |-> args.completion_cookie, state |-> "out", error |-> 0, payload |-> <<>>]},
                     srpcs,
                     net \cup {[type |-> "req", src |-> me, dst |-> dest, id |-> id, payload |-> data]},
                     [nextId EXCEPT ![me] = id + 1], socks)
      ELSE IF ActiveServer(sockfd, dest, args.id)
        THEN Outcome(0, "", args, crpcs,
                     {r \in srpcs : ~(r.sock = sockfd /\ r.peer = dest /\ r.id = args.id)},
                     net \cup {[type |-> "resp", src |-> me, dst |-> dest, id |-> args.id, payload |-> data]},
                     nextId, socks)
      ELSE Outcome(0, "", args, crpcs, srpcs, net, nextId, socks)

\* The control-transfer primitive behind HOMAIOCABORT.  args.id = 0 names every
\* client RPC of the socket, a non-zero id the one client RPC with that id;
\* an id that names no active RPC is not an error.  error = 0 destroys the
\* RPCs named; a non-zero error completes them with that error and no payload.
ioctl_abort(sockfd, args) ==
  LET named(r) == r.sock = sockfd /\ (args.id = 0 \/ r.id = args.id)
  IN  IF sockfd \notin DOMAIN socks THEN Rejected("EBADF", args)
      ELSE IF args.error = 0
        THEN Outcome(0, "", args, {r \in crpcs : ~named(r)}, srpcs, net, nextId, socks)
      ELSE Outcome(0, "", args,
                   {r \in crpcs : ~named(r)} \cup {[r EXCEPT !.state = "done", !.error = args.error, !.payload = <<>>] : r \in {q \in crpcs : named(q)}},
                   srpcs, net, nextId, socks)

\* A descriptor not yet in use, for a peeled-off socket.
FreeFd == CHOOSE fd \in ChildFds : fd \notin DOMAIN socks /\ \A g \in ChildFds \ DOMAIN socks : fd <= g

\* The socket-option primitive behind SO_HOMA_PEELOFF.  The address must be one
\* recvmsg has returned on this listening socket and that has no socket of its
\* own yet; the new socket is bound to that peer alone and its descriptor is
\* the return value.  Anything else is an addressing error and opens nothing.
getsockopt_peeloff(sockfd, optval, optlen) ==
  IF sockfd \notin DOMAIN socks THEN Rejected("EBADF", NoCtl)
  ELSE IF socks[sockfd].peer /= NULL THEN Rejected("EINVAL", NoCtl)
  ELSE IF optlen /= SockaddrLen \/ optval \notin observed[sockfd] THEN Rejected("EADDRNOTAVAIL", NoCtl)
  ELSE IF \E fd \in DOMAIN socks : socks[fd].host = socks[sockfd].host /\ socks[fd].peer = optval THEN Rejected("EADDRNOTAVAIL", NoCtl)
  ELSE Outcome(FreeFd, "", NoCtl, crpcs, srpcs, net, nextId,
               [fd \in DOMAIN socks \cup {FreeFd} |-> IF fd = FreeFd THEN [host |-> socks[sockfd].host, peer |-> optval] ELSE socks[fd]])

\* ------------------------------------------------------ the library (source)

\* homa_send without args.id = 0: the control block keeps an id of its own.
homa_send_hdr_stale(message_buf, length, dest_addr, addrlen, completion_cookie) == MsgHdr(dest_addr, addrlen, <<IoVec(message_buf, length)>>, 1, SendControl(1, completion_cookie), 0)

\* homa_send without the cookie: args.completion_cookie = 0.
homa_send_hdr_nocookie(message_buf, length, dest_addr, addrlen, completion_cookie) == MsgHdr(dest_addr, addrlen, <<IoVec(message_buf, length)>>, 1, SendControl(0, 0), 0)

\* homa_send: args.id = 0, args.completion_cookie = completion_cookie, one
\* iovec over the buffer, the destination as msg_name.
homa_send_hdr(message_buf, length, dest_addr, addrlen, completion_cookie) == MsgHdr(dest_addr, addrlen, <<IoVec(message_buf, length)>>, 1, SendControl(0, completion_cookie), 0)

\* homa_sendv without args.id = 0: the control block keeps an id of its own.
homa_sendv_hdr_stale(iov, iovcnt, dest_addr, addrlen, completion_cookie) == MsgHdr(dest_addr, addrlen, iov, iovcnt, SendControl(1, completion_cookie), 0)

\* homa_sendv: as homa_send, with the caller's iovec array.
homa_sendv_hdr(iov, iovcnt, dest_addr, addrlen, completion_cookie) == MsgHdr(dest_addr, addrlen, iov, iovcnt, SendControl(0, completion_cookie), 0)

\* The id written whatever sendmsg returned: if (id) *id = args.id;
homa_send_id_always(result, idp, args, old) == IF idp THEN args.id ELSE old

\* homa_send, homa_sendv: if (result >= 0 && id) *id = args.id;
homa_send_id(result, idp, args, old) == IF result >= 0 /\ idp THEN args.id ELSE old

\* homa_reply with the request's control block: args.id = 0 in place of id.
homa_reply_hdr_fresh(message_buf, length, dest_addr, addrlen, id) == MsgHdr(dest_addr, addrlen, <<IoVec(message_buf, length)>>, 1, SendControl(0, 0), 0)

\* homa_reply: args.id = id, args.completion_cookie = 0.
homa_reply_hdr(message_buf, length, dest_addr, addrlen, id) == MsgHdr(dest_addr, addrlen, <<IoVec(message_buf, length)>>, 1, SendControl(id, 0), 0)

\* homa_replyv with one chunk too few: msg_iovlen = iovcnt - 1.
homa_replyv_hdr_short(iov, iovcnt, dest_addr, addrlen, id) == MsgHdr(dest_addr, addrlen, iov, iovcnt - 1, SendControl(id, 0), 0)

\* homa_replyv: as homa_reply, with the caller's iovec array.
homa_replyv_hdr(iov, iovcnt, dest_addr, addrlen, id) == MsgHdr(dest_addr, addrlen, iov, iovcnt, SendControl(id, 0), 0)

\* homa_abort with the id in both fields: struct homa_abort_args args = {id, id}.
homa_abort_args_idtwice(id, error) == [id |-> id, error |-> id]

\* homa_abort naming them all where the caller named one.
homa_abort_args_all(id, error) == [id |-> 0, error |-> error]

\* homa_abort that always completes with an error: args = {id, 5}.
homa_abort_args_fail(id, error) == [id |-> id, error |-> 5]

\* homa_abort naming one RPC where the caller named them all.
homa_abort_args_one(id, error) == [id |-> IF id = 0 THEN 1 ELSE id, error |-> error]

\* homa_abort without the error: struct homa_abort_args args = {id}.
homa_abort_args_noerror(id, error) == [id |-> id, error |-> 0]

\* homa_abort with the fields swapped: struct homa_abort_args args = {error, id}.
homa_abort_args_swapped(id, error) == [id |-> error, error |-> id]

\* homa_abort: struct homa_abort_args args = {id, error}.
homa_abort_args(id, error) == [id |-> id, error |-> error]

\* homa_reply_connected: as homa_reply with msg_name = NULL, msg_namelen = 0.
homa_reply_connected_hdr(message_buf, length, id) == MsgHdr(NULL, 0, <<IoVec(message_buf, length)>>, 1, SendControl(id, 0), 0)

\* homa_send_connected without args.id = 0: the control block keeps an id.
homa_send_connected_hdr_stale(message_buf, length) == MsgHdr(NULL, 0, <<IoVec(message_buf, length)>>, 1, SendControl(1, 0), 0)

\* homa_send_connected: args.id = 0, args.completion_cookie = 0, no address.
homa_send_connected_hdr(message_buf, length) == MsgHdr(NULL, 0, <<IoVec(message_buf, length)>>, 1, SendControl(0, 0), 0)

\* homa_peeloff with another peer's address in place of client_addr.
homa_peeloff_opt_other(client_addr, addrlen) == [optval |-> IF client_addr = "A" THEN "B" ELSE "A", optlen |-> addrlen]

\* homa_peeloff without the length: optlen = 0.
homa_peeloff_opt_nolen(client_addr, addrlen) == [optval |-> client_addr, optlen |-> 0]

\* homa_peeloff with the length of an address in place of addrlen.
homa_peeloff_opt_sizeof(client_addr, addrlen) == [optval |-> client_addr, optlen |-> SockaddrLen]

\* homa_peeloff: the option value and length handed to getsockopt.
homa_peeloff_opt(client_addr, addrlen) == [optval |-> client_addr, optlen |-> addrlen]

\* The engine state after a primitive returned r; the run stops accepting
\* requests once MaxRpcs have been issued.
Effect(r) ==
  /\ Issued(r.nextId) <= MaxRpcs
  /\ crpcs' = r.crpcs
  /\ srpcs' = r.srpcs
  /\ net' = r.net
  /\ nextId' = r.nextId
  /\ socks' = r.socks
  /\ UNCHANGED <<observed, surfaced>>

\* A library call made in one step, from entry to return, by a thread that no
\* other thread's call interleaves with.
Apply(r) == Effect(r) /\ UNCHANGED thr

homa_send(sockfd, message_buf, length, dest_addr, addrlen, idp, old, completion_cookie) ==
  LET hdr == homa_send_hdr(message_buf, length, dest_addr, addrlen, completion_cookie)
      r   == sendmsg(sockfd, hdr)
  IN  /\ Apply(r)
      /\ ret' = Returned("homa_send", sockfd, dest_addr, 0, 0, idp, r, homa_send_id(r.rc, idp, r.args, old))
      /\ sent' = Sent(r, sockfd, dest_addr, completion_cookie, SubSeq(message_buf, 1, length))
      /\ UNCHANGED <<destroyed, aborted>>

homa_sendv(sockfd, iov, iovcnt, dest_addr, addrlen, idp, old, completion_cookie) ==
  LET hdr == homa_sendv_hdr(iov, iovcnt, dest_addr, addrlen, completion_cookie)
      r   == sendmsg(sockfd, hdr)
  IN  /\ Apply(r)
      /\ ret' = Returned("homa_sendv", sockfd, dest_addr, 0, 0, idp, r, homa_send_id(r.rc, idp, r.args, old))
      /\ sent' = Sent(r, sockfd, dest_addr, completion_cookie, Gather(iov, iovcnt))
      /\ UNCHANGED <<destroyed, aborted>>

homa_reply(sockfd, message_buf, length, dest_addr, addrlen, id) ==
  LET hdr == homa_reply_hdr(message_buf, length, dest_addr, addrlen, id)
      r   == sendmsg(sockfd, hdr)
  IN  /\ Apply(r)
      /\ ret' = Returned("homa_reply", sockfd, dest_addr, id, 0, FALSE, r, 0)
      /\ sent' = Sent(r, sockfd, dest_addr, 0, SubSeq(message_buf, 1, length))
      /\ UNCHANGED <<destroyed, aborted>>

homa_replyv(sockfd, iov, iovcnt, dest_addr, addrlen, id) ==
  LET hdr == homa_replyv_hdr(iov, iovcnt, dest_addr, addrlen, id)
      r   == sendmsg(sockfd, hdr)
  IN  /\ Apply(r)
      /\ ret' = Returned("homa_replyv", sockfd, dest_addr, id, 0, FALSE, r, 0)
      /\ sent' = Sent(r, sockfd, dest_addr, 0, Gather(iov, iovcnt))
      /\ UNCHANGED <<destroyed, aborted>>

homa_abort(sockfd, id, error) ==
  LET args == homa_abort_args(id, error)
      r    == ioctl_abort(sockfd, args)
  IN  /\ Apply(r)
      /\ ret' = Returned("homa_abort", sockfd, NULL, id, error, FALSE, r, 0)
      /\ destroyed' = IF r.rc >= 0 /\ error = 0 THEN destroyed \cup {[sock |-> k[1], id |-> k[2], by |-> id] : k \in Named(sockfd, id)} ELSE destroyed
      /\ aborted' = IF r.rc >= 0 /\ error /= 0 THEN {a \in aborted : <<a.sock, a.id>> \notin Named(sockfd, id)} \cup {[sock |-> k[1], id |-> k[2], error |-> error] : k \in Named(sockfd, id)} ELSE aborted
      /\ UNCHANGED sent

homa_reply_connected(sockfd, message_buf, length, id) ==
  LET hdr == homa_reply_connected_hdr(message_buf, length, id)
      r   == sendmsg(sockfd, hdr)
  IN  /\ Apply(r)
      /\ ret' = Returned("homa_reply_connected", sockfd, NULL, id, 0, FALSE, r, 0)
      /\ sent' = Sent(r, sockfd, NULL, 0, SubSeq(message_buf, 1, length))
      /\ UNCHANGED <<destroyed, aborted>>

homa_send_connected(sockfd, message_buf, length, flags) ==
  LET hdr == homa_send_connected_hdr(message_buf, length)
      r   == sendmsg(sockfd, hdr)
  IN  /\ Apply(r)
      /\ ret' = Returned("homa_send_connected", sockfd, NULL, 0, 0, FALSE, r, 0)
      /\ sent' = Sent(r, sockfd, NULL, 0, SubSeq(message_buf, 1, length))
      /\ UNCHANGED <<destroyed, aborted>>

homa_peeloff(sockfd, client_addr, addrlen) ==
  LET opt == homa_peeloff_opt(client_addr, addrlen)
      r   == getsockopt_peeloff(sockfd, opt.optval, opt.optlen)
  IN  /\ Apply(r)
      /\ ret' = Returned("homa_peeloff", sockfd, client_addr, 0, 0, FALSE, r, 0)
      /\ sent' = sent
      /\ UNCHANGED <<destroyed, aborted>>

\* ------------------------------------------ homa_send, statement by statement

\* Threads of the client application that call homa_send concurrently.
Threads == {"t1", "t2"}

\* A thread outside homa_send; got lists the ids its calls have returned.
Outside(got) == [pc |-> "out", sockfd |-> 0, dest |-> NULL, cookie |-> 0, hdr |-> MsgHdr(NULL, 0, <<>>, 0, NoCtl, 0), result |-> 0, errno |-> "", idv |-> 0, got |-> got]

\* Lines 120-140: the thread enters homa_send and fills args, vec and hdr, all
\* on its own stack.  idv is the caller's uint64_t that id points to.
homa_send_enter(t, sockfd, message_buf, length, dest_addr, addrlen, old, completion_cookie) ==
  /\ thr[t].pc = "out"
  /\ thr' = [thr EXCEPT ![t] = [@ EXCEPT !.pc = "sendmsg", !.sockfd = sockfd, !.dest = dest_addr, !.cookie = completion_cookie,
                                         !.hdr = homa_send_hdr(message_buf, length, dest_addr, addrlen, completion_cookie), !.idv = old]]
  /\ ret' = NoCall
  /\ UNCHANGED <<engine, surfaced, history>>

\* Line 141: result = sendmsg(sockfd, &hdr, 0); the engine writes the id into
\* the thread's args.
homa_send_sendmsg(t) ==
  /\ thr[t].pc = "sendmsg"
  /\ LET r == sendmsg(thr[t].sockfd, thr[t].hdr)
     IN  /\ Effect(r)
         /\ thr' = [thr EXCEPT ![t] = [@ EXCEPT !.pc = "copy", !.hdr = [@ EXCEPT !.msg_control = r.args], !.result = r.rc, !.errno = IF r.rc < 0 THEN r.errno ELSE ""]]
         /\ sent' = Sent(r, thr[t].sockfd, thr[t].dest, thr[t].cookie, Gather(thr[t].hdr.msg_iov, thr[t].hdr.msg_iovlen))
  /\ ret' = NoCall
  /\ UNCHANGED <<destroyed, aborted>>

\* Lines 142-144: if (result >= 0 && id) *id = args.id; return result.
homa_send_return(t) ==
  /\ thr[t].pc = "copy"
  /\ LET idout == homa_send_id(thr[t].result, TRUE, thr[t].hdr.msg_control, thr[t].idv)
     IN  /\ ret' = Returned("homa_send", thr[t].sockfd, thr[t].dest, 0, 0, TRUE, [rc |-> thr[t].result, errno |-> thr[t].errno], idout)
         /\ thr' = [thr EXCEPT ![t] = Outside(IF thr[t].result >= 0 THEN Append(@.got, idout) ELSE @.got)]
  /\ UNCHANGED <<engine, surfaced, history>>

\* ------------------------------------------------- engine: network, recvmsg

\* A request reaches its destination host and is queued on the socket that
\* serves its sender.
DeliverRequest(m) ==
  /\ m \in net /\ m.type = "req"
  /\ net' = net \ {m}
  /\ srpcs' = srpcs \cup {[sock |-> RouteSock(m.dst, m.src), host |-> m.dst, peer |-> m.src, id |-> m.id, payload |-> m.payload, state |-> "ready"]}
  /\ UNCHANGED <<socks, observed, nextId, crpcs, surfaced, history, thr>> /\ ret' = NoCall

\* A response reaches the requester: it completes the RPC it answers when that
\* RPC is still in flight, and is dropped otherwise.  Like a request, it is
\* queued on the socket that serves its sender.
DeliverResponse(m) ==
  /\ m \in net /\ m.type = "resp"
  /\ net' = net \ {m}
  /\ crpcs' = {IF r.host = m.dst /\ r.peer = m.src /\ r.id = m.id /\ r.state = "out" THEN [r EXCEPT !.state = "done", !.payload = m.payload, !.sock = RouteSock(m.dst, m.src)] ELSE r : r \in crpcs}
  /\ UNCHANGED <<socks, observed, nextId, srpcs, surfaced, history, thr>> /\ ret' = NoCall

\* recvmsg returns an incoming request: peer address, payload and RpcId.
RecvRequest(sockfd, r) ==
  /\ r \in srpcs /\ r.sock = sockfd /\ r.state = "ready"
  /\ srpcs' = (srpcs \ {r}) \cup {[r EXCEPT !.state = "inservice"]}
  /\ observed' = [observed EXCEPT ![sockfd] = @ \cup {r.peer}]
  /\ surfaced' = surfaced (+) SetToBag({[kind |-> "request", sock |-> sockfd, peer |-> r.peer, id |-> r.id, cookie |-> 0, error |-> 0, payload |-> r.payload]})
  /\ UNCHANGED <<socks, nextId, crpcs, net, history, thr>> /\ ret' = NoCall

\* recvmsg returns the outcome of a completed client RPC, with its completion
\* cookie: the response, or the error it was aborted with and no payload.
RecvResponse(sockfd, r) ==
  /\ r \in crpcs /\ r.sock = sockfd /\ r.state = "done"
  /\ crpcs' = crpcs \ {r}
  /\ surfaced' = surfaced (+) SetToBag({[kind |-> "response", sock |-> sockfd, peer |-> r.peer, id |-> r.id, cookie |-> r.cookie, error |-> r.error, payload |-> r.payload]})
  /\ UNCHANGED <<socks, observed, nextId, srpcs, net, history, thr>> /\ ret' = NoCall

recvmsg(sockfd) ==
  \/ \E r \in srpcs : RecvRequest(sockfd, r)
  \/ \E r \in crpcs : RecvResponse(sockfd, r)

\* ------------------------------------------------------------ the system

Init ==
  /\ socks = [fd \in {1, 2, 3} |-> [host |-> CHOOSE h \in Hosts : ListenFd[h] = fd, peer |-> NULL]]
  /\ observed = [fd \in Fds |-> {}]
  /\ nextId = [h \in Hosts |-> 1]
  /\ crpcs = {}
  /\ srpcs = {}
  /\ net = {}
  /\ surfaced = EmptyBag
  /\ ret = NoCall
  /\ sent = {}
  /\ destroyed = {}
  /\ aborted = {}
  /\ thr = [t \in Threads |-> Outside(<<>>)]

\* The sockets each host opened at start, by role, and the peeled-off ones.
ClientFds == {ListenFd["A"], ListenFd["B"]}
ServerFds == {fd \in DOMAIN socks : socks[fd].host = "S"}
AnyFd == DOMAIN socks \cup BadFd

\* The addresses a caller on sockfd may name: every host but its own.
Others(sockfd) == IF sockfd \in DOMAIN socks THEN Hosts \ {socks[sockfd].host} ELSE Hosts

\* The calls the applications make.  Clients send requests to the server from
\* their sockets; the server answers, peels sockets off and uses them in
\* connected mode; anyone may abort.
SendReq(fds, lens, idps, cookies) == \E sockfd \in fds, b \in ReqBufs, al \in lens, idp \in idps, old \in Stale, c \in cookies : homa_send(sockfd, b, Len(b), "S", al, idp, old, c)

SendvReq(fds, lens, idps, cookies) == \E sockfd \in fds, v \in ReqIovs, al \in lens, idp \in idps, old \in Stale, c \in cookies : homa_sendv(sockfd, v, Len(v), "S", al, idp, old, c)

Reply(fds, lens) == \E sockfd \in fds, b \in RespBufs, d \in Hosts, al \in lens, id \in Ids : d \in Others(sockfd) /\ homa_reply(sockfd, b, Len(b), d, al, id)

Replyv(fds, lens) == \E sockfd \in fds, v \in RespIovs, d \in Hosts, al \in lens, id \in Ids : d \in Others(sockfd) /\ homa_replyv(sockfd, v, Len(v), d, al, id)

Abort(fds) == \E sockfd \in fds, id \in Ids, e \in Errors : homa_abort(sockfd, id, e)

ReplyConnected(fds) == \E sockfd \in fds, b \in RespBufs, id \in Ids : homa_reply_connected(sockfd, b, Len(b), id)

SendConnected(fds) == \E sockfd \in fds, b \in ReqBufs : homa_send_connected(sockfd, b, Len(b), 0)

Peeloff(fds, lens) == \E sockfd \in fds, a \in Hosts, al \in lens : a \in Others(sockfd) /\ homa_peeloff(sockfd, a, al)

Deliver == \E m \in net : DeliverRequest(m) \/ DeliverResponse(m)

Receive == \E sockfd \in DOMAIN socks : recvmsg(sockfd)

\* Every call on every socket, valid or not.
Next ==
  \/ SendReq(AnyFd, AddrLens, BOOLEAN, Cookies)
  \/ SendvReq(AnyFd, AddrLens, BOOLEAN, Cookies)
  \/ Reply(AnyFd, AddrLens)
  \/ Replyv(AnyFd, AddrLens)
  \/ Abort(AnyFd)
  \/ ReplyConnected(AnyFd)
  \/ SendConnected(AnyFd)
  \/ Peeloff(AnyFd, AddrLens)
  \/ Deliver
  \/ Receive

Spec == Init /\ [][Next]_vars

\* Requests and replies between the clients' sockets and the server's
\* listening socket, single-buffer and scatter/gather, with calls that fail.
NextRpc ==
  \/ SendReq(ClientFds, AddrLens, BOOLEAN, {7})
  \/ SendvReq(ClientFds, AddrLens, BOOLEAN, {7})
  \/ Reply({ListenFd["S"]}, {SockaddrLen})
  \/ Replyv({ListenFd["S"]}, {SockaddrLen})
  \/ Deliver
  \/ Receive

SpecRpc == Init /\ [][NextRpc]_vars

\* Abort against the request/response path: client A's requests, the server's
\* replies, and abort calls on both clients' sockets.
NextAbort ==
  \/ SendReq({ListenFd["A"]}, {SockaddrLen}, {TRUE}, Cookies)
  \/ Reply({ListenFd["S"]}, {SockaddrLen})
  \/ Abort(ClientFds)
  \/ Deliver
  \/ Receive

SpecAbort == Init /\ [][NextAbort]_vars

\* Peel-off and connected mode on the server, with the clients' requests that
\* make their addresses known.
NextPeel ==
  \/ SendReq(ClientFds, {SockaddrLen}, {TRUE}, {7})
  \/ Reply({ListenFd["S"]}, {SockaddrLen})
  \/ ReplyConnected(ServerFds)
  \/ SendConnected(ServerFds)
  \/ Peeloff(ServerFds, AddrLens)
  \/ Deliver
  \/ Receive

SpecPeel == Init /\ [][NextPeel]_vars

\* Two threads of client A inside homa_send on the same socket at the same
\* time, each statement a step of its own, while the server answers and the
\* outcomes are received.
EnterSend == \E t \in Threads, b \in ReqBufs, old \in Stale : homa_send_enter(t, ListenFd["A"], b, Len(b), "S", SockaddrLen, old, 7)

CallSendmsg == \E t \in Threads : homa_send_sendmsg(t)

ReturnSend == \E t \in Threads : homa_send_return(t)

NextThreads ==
  \/ EnterSend
  \/ CallSendmsg
  \/ ReturnSend
  \/ Reply({ListenFd["S"]}, {SockaddrLen})
  \/ Deliver
  \/ Receive

SpecThreads == Init /\ [][NextThreads]_vars

\* Abort on the server's sockets, listening and peeled-off, and on client A's,
\* with requests in both directions.
NextFrame ==
  \/ SendReq({ListenFd["A"]}, {SockaddrLen}, {TRUE}, {7})
  \/ Reply({ListenFd["S"]}, {SockaddrLen})
  \/ SendConnected(ServerFds)
  \/ Peeloff(ServerFds, {SockaddrLen})
  \/ Abort({ListenFd["A"]} \cup ServerFds)
  \/ Deliver
  \/ Receive

SpecFrame == Init /\ [][NextFrame]_vars

\* Traffic in both directions between the server and its clients, around
\* peel-off: the clients send requests and answer the server's.
NextRoute ==
  \/ SendReq(ClientFds, {SockaddrLen}, {TRUE}, {7})
  \/ Reply({ListenFd["A"], ListenFd["S"]}, {SockaddrLen})
  \/ Peeloff(ServerFds, {SockaddrLen})
  \/ Deliver
  \/ Receive

SpecRoute == Init /\ [][NextRoute]_vars

\* Every library function, on client A's socket, on the server's sockets and
\* on a descriptor that is no socket, with and without a usable address length.
NextCalls ==
  \/ SendReq({ListenFd["A"]} \cup BadFd, AddrLens, {TRUE}, {7})
  \/ SendvReq({ListenFd["A"]} \cup BadFd, {SockaddrLen}, {TRUE}, {7})
  \/ \E sockfd \in {ListenFd["S"]} \cup BadFd, b \in RespBufs : homa_reply(sockfd, b, Len(b), "A", SockaddrLen, 1)
  \/ \E sockfd \in {ListenFd["S"]} \cup BadFd, v \in RespIovs, al \in AddrLens : homa_replyv(sockfd, v, Len(v), "A", al, 1)
  \/ \E sockfd \in {ListenFd["A"]} \cup BadFd, e \in Errors : homa_abort(sockfd, 1, e)
  \/ \E sockfd \in ServerFds \cup BadFd, b \in RespBufs : homa_reply_connected(sockfd, b, Len(b), 1)
  \/ SendConnected(ServerFds \cup BadFd)
  \/ \E sockfd \in ServerFds \cup BadFd, al \in AddrLens : homa_peeloff(sockfd, "A", al)
  \/ Deliver
  \/ Receive

SpecCalls == Init /\ [][NextCalls]_vars

\* ------------------------------------------------------------ properties

\* What recvmsg has returned so far: incoming requests, and the outcomes of
\* client RPC id of socket sockfd.
Requests == {rec \in BagToSet(surfaced) : rec.kind = "request"}

Responses(sockfd, id) == {rec \in BagToSet(surfaced) : rec.kind = "response" /\ rec.sock = sockfd /\ rec.id = id}

AllResponses == {rec \in BagToSet(surfaced) : rec.kind = "response"}

\* The response message a reply with buffer b to request id of peer d puts on
\* the network.
RespMsg(sockfd, b, d, id) == [type |-> "resp", src |-> socks[sockfd].host, dst |-> d, id |-> id, payload |-> b]

\* Every request recvmsg returns carries a non-zero RpcId and is a request some
\* caller sent to this host, with its payload.
C1_Surfaced == \A rec \in Requests : rec.id /= 0 /\ \E x \in sent : socks[x.sock].host = rec.peer /\ x.id = rec.id /\ x.payload = rec.payload /\ (x.dest = NULL \/ x.dest = socks[rec.sock].host)

\* The requester gets at most one outcome per RPC; a response it gets carries
\* the reply's payload, and the request it answers was returned to the server.
C1_ExactlyOne == \A rec \in AllResponses : /\ CopiesIn(rec, surfaced) = 1
                                            /\ Responses(rec.sock, rec.id) = {rec}
                                            /\ rec.error = 0 => rec.payload \in RespBufs /\ \E q \in Requests : q.peer = socks[rec.sock].host /\ q.id = rec.id

\* A homa_reply naming a non-zero id succeeds: the first one for a request that
\* awaits its reply puts exactly the response on the network and ends the wait;
\* any other changes nothing.
C1_ReplyStep ==
  ret'.op = "homa_reply" /\ ret'.id /= 0 /\ ret'.dest \in Hosts =>
    LET sockfd == ret'.sock
        d      == ret'.dest
        id     == ret'.id
    IN  /\ ret'.rc = 0
        /\ IF ActiveServer(sockfd, d, id)
             THEN /\ \E b \in RespBufs : RespMsg(sockfd, b, d, id) \notin net /\ net' = net \cup {RespMsg(sockfd, b, d, id)}
                  /\ srpcs' = {q \in srpcs : ~(q.sock = sockfd /\ q.peer = d /\ q.id = id)}
                  /\ UNCHANGED <<crpcs, nextId, socks, observed, surfaced>>
             ELSE UNCHANGED <<engine, surfaced>>

(* C1: a request that was sent and delivered is returned by the server's recvmsg
   with an RpcId r /= 0; the first homa_reply for r returns 0 and puts the
   response for the requester on the network; every further homa_reply naming r
   returns 0 and sends nothing; the requester is never given more than one
   outcome for r. *)
C1_ReplyExactlyOnce == [](C1_Surfaced /\ C1_ExactlyOne) /\ [][C1_ReplyStep]_vars

\* The requester has received the response for its RPC 1, and the server has
\* just called homa_reply for that same request once more, getting 0.
C1_Witness == /\ ret.op = "homa_reply" /\ ret.sock = ListenFd["S"] /\ ret.dest = "A" /\ ret.id = 1 /\ ret.rc = 0
              /\ \E rec \in Responses(ListenFd["A"], 1) : rec.error = 0 /\ rec.payload \in RespBufs

\* ----------------------------------------------------------------- C2

\* The control block homa_send and homa_sendv hand to sendmsg has id 0,
\* whatever the arguments.
C2_Presents ==
  /\ \A b \in ReqBufs, d \in Hosts \cup {NULL}, al \in AddrLens, c \in Cookies : homa_send_hdr(b, Len(b), d, al, c).msg_control.id = 0
  /\ \A v \in ReqIovs, d \in Hosts \cup {NULL}, al \in AddrLens, c \in Cookies : homa_sendv_hdr(v, Len(v), d, al, c).msg_control.id = 0

\* A homa_send or homa_sendv that succeeds started exactly one RPC, under the
\* next id of the caller's host, which is not 0 and names no RPC of the socket
\* so far; the request on the network carries that id, and the caller's
\* uint64_t holds it (a NULL id pointer gets nothing).
C2_SendStep ==
  ret'.op \in {"homa_send", "homa_sendv"} /\ ret'.rc >= 0 =>
    LET sockfd == ret'.sock
        me     == socks[sockfd].host
        id     == nextId[me]
    IN  /\ id /= 0 /\ ~ActiveClient(sockfd, id)
        /\ \A x \in sent : x.sock = sockfd => x.id /= id
        /\ nextId' = [nextId EXCEPT ![me] = id + 1]
        /\ \E c \in Cookies : crpcs' = crpcs \cup {[sock |-> sockfd, host |-> me, id |-> id, peer |-> ret'.dest, cookie |-> c, state |-> "out", error |-> 0, payload |-> <<>>]}
        /\ \E b \in ReqBufs : net' = net \cup {[type |-> "req", src |-> me, dst |-> ret'.dest, id |-> id, payload |-> b]}
        /\ \E x \in sent' \ sent : x.sock = sockfd /\ x.id = id /\ sent' = sent \cup {x}
        /\ IF ret'.idp THEN ret'.idout = id ELSE ret'.idout \in Stale
        /\ UNCHANGED <<srpcs, socks, observed, surfaced>>

\* The id recvmsg returns for an RPC, to the server with the request and to the
\* requester with the outcome, is the id its homa_send or homa_sendv got from
\* the engine; no two requests of a socket got the same id.
C2_SameId ==
  /\ \A rec \in Requests : \E x \in sent : socks[x.sock].host = rec.peer /\ x.dest = socks[rec.sock].host /\ x.id = rec.id /\ x.id /= 0
  /\ \A rec \in AllResponses : \E x \in sent : x.sock = rec.sock /\ x.dest = rec.peer /\ x.id = rec.id /\ x.id /= 0
  /\ \A x, y \in sent : x.sock = y.sock /\ x.id = y.id => x = y

(* C2: homa_send and homa_sendv always present id = 0 to sendmsg; when they
   succeed, the value written for the caller is the id the engine assigned to
   the request, which is not 0, and it is the id recvmsg later returns for that
   RPC. *)
C2_EngineAssignedId == [](C2_Presents /\ C2_SameId) /\ [][C2_SendStep]_vars

\* homa_sendv has just returned id 2 for client A's second request, after A's
\* first request came back from recvmsg under the id 1 its send returned.
C2_Witness == /\ ret.op = "homa_sendv" /\ ret.sock = ListenFd["A"] /\ ret.rc = 0 /\ ret.idp /\ ret.idout = 2
              /\ Responses(ListenFd["A"], 1) /= {}
              /\ \E rec \in Requests : rec.peer = "A" /\ rec.id = 1

\* ----------------------------------------------------------------- C7

\* A homa_reply or homa_replyv whose id names no request of that peer awaiting
\* its reply on the socket returns 0 and changes nothing: nothing is put on the
\* network and no RPC starts or ends.
C7_StaleStep ==
  ret'.op \in {"homa_reply", "homa_replyv"} /\ ret'.dest \in Hosts /\ ~ActiveServer(ret'.sock, ret'.dest, ret'.id) =>
    /\ ret'.rc = 0
    /\ UNCHANGED <<engine, surfaced>>

(* C7: a reply naming an id for which the socket has no active received request
   is a silent no-op: it returns success, sends nothing and leaves all RPC
   state unchanged. *)
C7_StaleReplyNoOp == [][C7_StaleStep]_vars

\* The server called homa_reply with id 0, for which no request awaits a reply:
\* the call returned 0, and an RPC of the server's own is now in flight.
C7_Witness == /\ ret.op = "homa_reply" /\ ret.id = 0 /\ ret.rc = 0
              /\ \E q \in crpcs : q.sock = ret.sock /\ q.peer = ret.dest /\ q.state = "out"

\* ----------------------------------------------------------------- C9

\* A homa_send or homa_sendv that fails returns what sendmsg returned, with
\* its errno; the caller's uint64_t holds what it held before, and no RPC, id,
\* message or socket differs from before the call.
C9_FailStep ==
  ret'.op \in {"homa_send", "homa_sendv"} /\ ret'.rc < 0 =>
    /\ \E b \in ReqBufs, al \in AddrLens, c \in Cookies :
         LET r == sendmsg(ret'.sock, homa_send_hdr(b, Len(b), ret'.dest, al, c))
         IN  r.rc < 0 /\ ret'.rc = r.rc /\ ret'.errno = r.errno
    /\ ret'.idout \in Stale
    /\ UNCHANGED <<engine, surfaced, history>>

\* Every RPC that is active was started by a send that succeeded.
C9_ActiveWereSent == \A q \in crpcs : \E x \in sent : x.sock = q.sock /\ x.id = q.id

(* C9: when sendmsg fails, homa_send and homa_sendv return the failure, no
   RpcId is allocated or written to the caller's id output, and the set of
   active RPCs is the same after the call as before it. *)
C9_FailedSendLeavesNothing == []C9_ActiveWereSent /\ [][C9_FailStep]_vars

\* A homa_send with a non-NULL id pointer has just failed while an earlier
\* request of the same socket is active.
C9_Witness == /\ ret.op = "homa_send" /\ ret.rc < 0 /\ ret.idp /\ ret.idout \in Stale
              /\ \E q \in crpcs : q.sock = ret.sock

\* ----------------------------------------------------------------- C3

\* An RPC carries, while it is active and when recvmsg returns its outcome, the
\* completion cookie its homa_send was given; an outcome is a response with a
\* payload or an error without one.
C3_CookieOfItsRpc ==
  /\ \A q \in crpcs : \E x \in sent : x.sock = q.sock /\ x.id = q.id /\ x.cookie = q.cookie
  /\ \A rec \in AllResponses :
       /\ \E x \in sent : x.sock = rec.sock /\ x.id = rec.id /\ x.cookie = rec.cookie
       /\ \A x \in sent : x.sock = rec.sock /\ x.id = rec.id => x.cookie = rec.cookie
       /\ IF rec.error = 0 THEN rec.payload \in RespBufs ELSE rec.payload = <<>> /\ \E a \in aborted : a.sock = rec.sock /\ a.id = rec.id /\ a.error = rec.error

\* recvmsg hands an outcome over with the id and the cookie of the RPC it ends.
C3_RecvStep ==
  \A q \in crpcs : q \notin crpcs' /\ surfaced' /= surfaced =>
    surfaced' = surfaced (+) SetToBag({[kind |-> "response", sock |-> q.sock, peer |-> q.peer, id |-> q.id, cookie |-> q.cookie, error |-> q.error, payload |-> q.payload]})

(* C3: the completion cookie given to homa_send comes back unmodified from the
   requester's recvmsg with the terminal outcome of that same RPC, be it the
   reply or the error of an abort; no cookie comes back with another RPC's id. *)
C3_CookieEchoed == []C3_CookieOfItsRpc /\ [][C3_RecvStep]_vars

\* Client A sent two requests, with cookies 99 and 7: recvmsg returned the
\* reply to the first with cookie 99, and error 5 for the second, aborted,
\* with cookie 7.
C3_Witness ==
  /\ \E rec \in Responses(ListenFd["A"], 1) : rec.cookie = 99 /\ rec.error = 0 /\ rec.payload \in RespBufs
  /\ \E rec \in Responses(ListenFd["A"], 2) : rec.cookie = 7 /\ rec.error = 5 /\ rec.payload = <<>>

\* ----------------------------------------------------------------- C4

\* homa_abort(sockfd, 0, 0) returns 0 and ends every client RPC of the socket,
\* however many there are; nothing else changes.
C4_AbortAllStep ==
  ret'.op = "homa_abort" /\ ret'.id = 0 /\ ret'.error = 0 /\ ret'.sock \in DOMAIN socks =>
    /\ ret'.rc = 0
    /\ crpcs' = {q \in crpcs : q.sock /= ret'.sock}
    /\ destroyed' = destroyed \cup {[sock |-> q.sock, id |-> q.id, by |-> 0] : q \in {x \in crpcs : x.sock = ret'.sock}}
    /\ UNCHANGED <<socks, observed, nextId, srpcs, net, surfaced>>

\* An RPC that homa_abort(sockfd, 0, 0) ended is not active and recvmsg has
\* returned no outcome for it.
C4_NeverSurfaced == \A d \in destroyed : d.by = 0 => ~ActiveClient(d.sock, d.id) /\ Responses(d.sock, d.id) = {}

(* C4: homa_abort(sockfd, 0, 0) on a socket with N active client RPCs destroys
   all N: no recvmsg on the socket ever returns one of those ids, even when the
   reply to one of them arrives afterwards. *)
C4_AbortAllDestroys == []C4_NeverSurfaced /\ [][C4_AbortAllStep]_vars

\* homa_abort(1, 0, 0) has just ended client A's two RPCs, and the reply to
\* the first is on the network, yet to arrive.
C4_Witness ==
  /\ ret.op = "homa_abort" /\ ret.sock = ListenFd["A"] /\ ret.id = 0 /\ ret.error = 0 /\ ret.rc = 0
  /\ \A i \in {1, 2} : [sock |-> ListenFd["A"], id |-> i, by |-> 0] \in destroyed
  /\ \E m \in net : m.type = "resp" /\ m.dst = "A" /\ m.id = 1

\* ----------------------------------------------------------------- C5

\* homa_abort(sockfd, id, e) with e /= 0 for an active client RPC returns 0 and
\* completes that RPC with error e and no payload; nothing else changes.
C5_AbortStep ==
  ret'.op = "homa_abort" /\ ret'.id /= 0 /\ ret'.error /= 0 /\ ActiveClient(ret'.sock, ret'.id) =>
    /\ ret'.rc = 0
    /\ crpcs' = {IF q.sock = ret'.sock /\ q.id = ret'.id THEN [q EXCEPT !.state = "done", !.error = ret'.error, !.payload = <<>>] ELSE q : q \in crpcs}
    /\ [sock |-> ret'.sock, id |-> ret'.id, error |-> ret'.error] \in aborted'
    /\ UNCHANGED <<socks, observed, nextId, srpcs, net, surfaced>>

\* An RPC aborted with an error waits for recvmsg with that error and no
\* payload, whatever arrives for it meanwhile, and that is what recvmsg returns
\* for it.
C5_ErrorSurfaced ==
  \A a \in aborted :
    /\ \A q \in crpcs : q.sock = a.sock /\ q.id = a.id => q.state = "done" /\ q.error = a.error /\ q.payload = <<>>
    /\ \A rec \in Responses(a.sock, a.id) : rec.error = a.error /\ rec.error /= 0 /\ rec.payload = <<>>

(* C5: homa_abort(sockfd, id, e) with e /= 0 on an active client RPC completes
   it with a failure: the next recvmsg that returns id reports error e and no
   payload, in place of a normal result. *)
C5_AbortReportsError == []C5_ErrorSurfaced /\ [][C5_AbortStep]_vars

\* Client A's RPC 1 was aborted with error 5 after the server had replied to
\* it, and recvmsg has returned error 5 and no payload for it.
C5_Witness ==
  /\ [sock |-> ListenFd["A"], id |-> 1, error |-> 5] \in aborted
  /\ \E rec \in Responses(ListenFd["A"], 1) : rec.error = 5 /\ rec.payload = <<>>
  /\ \E rec \in Requests : rec.peer = "A" /\ rec.id = 1
  /\ ~ActiveServer(ListenFd["S"], "A", 1) /\ \A r \in srpcs : r.id /= 1

\* ----------------------------------------------------------------- C6

\* homa_abort with a non-zero id that names no active RPC of the socket returns
\* 0 and changes nothing, whatever the error argument.
C6_StaleAbortStep ==
  ret'.op = "homa_abort" /\ ret'.id /= 0 /\ ret'.sock \in DOMAIN socks /\ ~ActiveClient(ret'.sock, ret'.id) =>
    /\ ret'.rc = 0
    /\ UNCHANGED <<engine, surfaced, history>>

(* C6: homa_abort(sockfd, id, e) for a non-zero id that names no active RPC of
   the socket (never issued, already completed, already aborted) returns 0 and
   leaves the whole state unchanged: the active RPCs and what recvmsg returns
   later are as if the call had not been made. *)
C6_StaleAbortNoOp == [][C6_StaleAbortStep]_vars

\* Client A's RPC 1 has completed and its outcome was returned; RPC 2 is active;
\* homa_abort(1, 1, e) has just returned 0.
C6_Witness ==
  /\ ret.op = "homa_abort" /\ ret.sock = ListenFd["A"] /\ ret.id = 1 /\ ret.rc = 0
  /\ Responses(ListenFd["A"], 1) /= {}
  /\ ActiveClient(ListenFd["A"], 2)

\* ----------------------------------------------------------------- C8

\* The socket peeled off sockfd's host for peer a, if there is one.
Children(h, a) == {fd \in DOMAIN socks : socks[fd].host = h /\ socks[fd].peer = a}

\* homa_peeloff on a listening socket, for an address recvmsg has returned on
\* it and that has no socket of its own yet, returns a new descriptor bound to
\* that peer; the listening socket, its queued and in-service requests and
\* everything else are as before.
C8_PeelStep ==
  \A sockfd \in DOMAIN socks, a \in Hosts :
    /\ ret'.op = "homa_peeloff" /\ ret'.sock = sockfd /\ ret'.dest = a
    /\ socks[sockfd].peer = NULL /\ a \in observed[sockfd] /\ Children(socks[sockfd].host, a) = {}
    /\ homa_peeloff(sockfd, a, SockaddrLen)
    => /\ ret'.rc \in ChildFds \ DOMAIN socks
       /\ DOMAIN socks' = DOMAIN socks \cup {ret'.rc}
       /\ socks'[ret'.rc] = [host |-> socks[sockfd].host, peer |-> a]
       /\ \A fd \in DOMAIN socks : socks'[fd] = socks[fd]
       /\ UNCHANGED <<observed, nextId, crpcs, srpcs, net, surfaced>>

\* On a peeled-off socket the connected calls succeed with no address:
\* homa_send_connected starts a request to the socket's peer, and
\* homa_reply_connected answers the peer's request that awaits its reply.
C8_ConnectedStep ==
  /\ ret'.op = "homa_send_connected" /\ ret'.sock \in DOMAIN socks /\ socks[ret'.sock].peer /= NULL =>
       LET me == socks[ret'.sock].host
           id == nextId[me]
       IN  /\ ret'.rc = 0
           /\ crpcs' = crpcs \cup {[sock |-> ret'.sock, host |-> me, id |-> id, peer |-> socks[ret'.sock].peer, cookie |-> 0, state |-> "out", error |-> 0, payload |-> <<>>]}
           /\ \E b \in ReqBufs : net' = net \cup {[type |-> "req", src |-> me, dst |-> socks[ret'.sock].peer, id |-> id, payload |-> b]}
  /\ ret'.op = "homa_reply_connected" /\ ret'.sock \in DOMAIN socks /\ socks[ret'.sock].peer /= NULL =>
       /\ ret'.rc = 0
       /\ ActiveServer(ret'.sock, socks[ret'.sock].peer, ret'.id) =>
            /\ \E b \in RespBufs : net' = net \cup {RespMsg(ret'.sock, b, socks[ret'.sock].peer, ret'.id)}
            /\ srpcs' = {q \in srpcs : ~(q.sock = ret'.sock /\ q.id = ret'.id)}

\* With sockets peeled off, the listening socket still gets the requests of
\* every peer that has no socket of its own, recvmsg returns them on it, and
\* homa_reply answers them there.
C8_ListeningStep ==
  /\ \A m \in net : m.type = "req" /\ m \notin net' /\ Children(m.dst, m.src) = {} =>
       srpcs' = srpcs \cup {[sock |-> ListenFd[m.dst], host |-> m.dst, peer |-> m.src, id |-> m.id, payload |-> m.payload, state |-> "ready"]}
  /\ ret'.op = "homa_reply" /\ socks[ret'.sock].peer = NULL /\ ActiveServer(ret'.sock, ret'.dest, ret'.id) =>
       /\ ret'.rc = 0
       /\ \E b \in RespBufs : net' = net \cup {RespMsg(ret'.sock, b, ret'.dest, ret'.id)}

\* A request waits on the socket peeled off for its sender, or on the listening
\* socket; a peer has at most one socket peeled off for it; and a request that
\* is ready on a socket can be received there.
C8_Sockets ==
  /\ \A r \in srpcs : r.sock \in DOMAIN socks /\ socks[r.sock].host = r.host /\ socks[r.sock].peer \in {NULL, r.peer}
  /\ \A r \in srpcs : r.state = "ready" => ENABLED RecvRequest(r.sock, r)
  /\ \A h, a \in Hosts : Cardinality(Children(h, a)) <= 1
  /\ \A fd \in DOMAIN socks : socks[fd].peer /= NULL => socks[fd].peer \in observed[ListenFd[socks[fd].host]]

(* C8: homa_peeloff on an address that recvmsg has returned on the listening
   socket (and that has not been peeled off already) returns a new socket on
   which homa_send_connected and homa_reply_connected succeed with no address,
   and the listening socket stays fully operational: requests from the other
   addresses still reach it, come back from recvmsg on it and are answered
   there, before and after the peel-off. *)
C8_PeelOffAdditive == []C8_Sockets /\ [][C8_PeelStep /\ C8_ConnectedStep /\ C8_ListeningStep]_vars

\* A socket was peeled off for client A after A's first request came in on the
\* listening socket; A's second request came in on the new socket and
\* homa_reply_connected has just answered it there.
C8_Witness ==
  /\ ret.op = "homa_reply_connected" /\ ret.sock \in ChildFds /\ ret.id = 2 /\ ret.rc = 0
  /\ socks[ret.sock] = [host |-> "S", peer |-> "A"]
  /\ RespMsg(ret.sock, <<3, 4>>, "A", 2) \in net
  /\ \E rec \in Requests : rec.sock = ListenFd["S"] /\ rec.peer = "A" /\ rec.id = 1
  /\ \E rec \in Requests : rec.sock = ret.sock /\ rec.peer = "A" /\ rec.id = 2

\* ----------------------------------------------------------------- C10

\* homa_peeloff for an address recvmsg never returned on the listening socket
\* fails with EADDRNOTAVAIL; any homa_peeloff that fails opens no socket and
\* changes nothing.
C10_UnknownStep ==
  /\ ret'.op = "homa_peeloff" /\ ret'.sock \in DOMAIN socks /\ socks[ret'.sock].peer = NULL /\ ret'.dest \notin observed[ret'.sock] =>
       ret'.rc = -1 /\ ret'.errno = "EADDRNOTAVAIL"
  /\ ret'.op = "homa_peeloff" /\ ret'.rc < 0 => UNCHANGED <<engine, surfaced, history>>

\* homa_peeloff with a length that is not an address's fails with
\* EADDRNOTAVAIL, whatever the address.
C10_LengthStep ==
  \A sockfd \in DOMAIN socks, a \in Hosts, al \in AddrLens \ {SockaddrLen} :
    ret'.op = "homa_peeloff" /\ ret'.sock = sockfd /\ ret'.dest = a /\ socks[sockfd].peer = NULL /\ homa_peeloff(sockfd, a, al) => ret'.rc = -1 /\ ret'.errno = "EADDRNOTAVAIL" /\ UNCHANGED engine

(* C10: homa_peeloff with an address and length that match no live association
   of the listening socket (an address recvmsg never returned on it) fails with
   an addressing error and creates no socket: the sockets and the routing of
   every peer's traffic are unchanged. *)
C10_PeelOffUnknownFails == [][C10_UnknownStep /\ C10_LengthStep]_vars

\* homa_peeloff for client B, which the server has not heard from, has just
\* failed, while the server has a socket peeled off for client A.
C10_Witness ==
  /\ ret.op = "homa_peeloff" /\ ret.sock = ListenFd["S"] /\ ret.dest = "B" /\ ret.rc = -1 /\ ret.errno = "EADDRNOTAVAIL"
  /\ "B" \notin observed[ListenFd["S"]]
  /\ Children("S", "A") /= {}

\* ----------------------------------------------------------------- C11

\* The sockets peeled off for a peer.
PeeledOff == {fd \in DOMAIN socks : socks[fd].peer /= NULL}

\* On a peeled-off socket homa_reply_connected hands sendmsg what homa_reply
\* to the socket's peer hands it, but for the address: the caller's id and
\* cookie 0; and the engine does the same with both.
C11_ReplySame ==
  \A fd \in PeeledOff, b \in RespBufs, id \in Ids :
    LET c == homa_reply_connected_hdr(b, Len(b), id)
        e == homa_reply_hdr(b, Len(b), socks[fd].peer, SockaddrLen, id)
    IN  /\ c.msg_control = e.msg_control /\ c.msg_control = SendControl(id, 0)
        /\ c.msg_iov = e.msg_iov /\ c.msg_iovlen = e.msg_iovlen
        /\ c.msg_name = NULL /\ c.msg_namelen = 0
        /\ sendmsg(fd, c) = sendmsg(fd, e)

\* On a peeled-off socket homa_send_connected hands sendmsg what homa_send to
\* the socket's peer hands it when given the cookie c, but for the address.
C11_SendSameWith(c) ==
  \A fd \in PeeledOff, b \in ReqBufs :
    LET k == homa_send_connected_hdr(b, Len(b))
        e == homa_send_hdr(b, Len(b), socks[fd].peer, SockaddrLen, c)
    IN  /\ k.msg_control = e.msg_control /\ k.msg_control.id = 0
        /\ k.msg_iov = e.msg_iov /\ k.msg_iovlen = e.msg_iovlen
        /\ k.msg_name = NULL /\ k.msg_namelen = 0
        /\ sendmsg(fd, k) = sendmsg(fd, e)

\* homa_send_connected that succeeds on a peeled-off socket starts an RPC to
\* the socket's peer with cookie 0, and hands no id to the caller: it has no
\* id argument, and its return value is sendmsg's.
C11_SendStep ==
  ret'.op = "homa_send_connected" /\ ret'.sock \in PeeledOff /\ ret'.rc >= 0 =>
    /\ ret'.rc = 0 /\ ~ret'.idp /\ ret'.idout = 0
    /\ \E q \in crpcs' \ crpcs : q.sock = ret'.sock /\ q.peer = socks[ret'.sock].peer /\ q.id = nextId[q.host] /\ q.cookie = 0 /\ crpcs' = crpcs \cup {q}

\* homa_send_connected that succeeds hands the caller the id the engine
\* assigned, as homa_send does.
C11_SendReturnsId ==
  ret'.op = "homa_send_connected" /\ ret'.sock \in PeeledOff /\ ret'.rc >= 0 =>
    \E q \in crpcs' \ crpcs : ret'.idout = q.id \/ ret'.rc = q.id

(* C11, as in the specification: on a peeled-off socket homa_send_connected has
   the control semantics of homa_send to the socket's peer (id forced to 0, the
   caller's cookie attached, the engine's id returned to the caller), and
   homa_reply_connected those of homa_reply (the caller's id, cookie 0). *)
C11_ConnectedIdentical == [](C11_ReplySame /\ \A c \in Cookies : C11_SendSameWith(c)) /\ [][C11_SendReturnsId]_vars

(* C11, as the code has it: on a peeled-off socket homa_reply_connected has the
   control semantics of homa_reply to the socket's peer (the caller's id,
   cookie 0); homa_send_connected has those of homa_send to the socket's peer
   with cookie 0 and no id pointer: id forced to 0, cookie always 0, and the
   engine's id is not returned to the caller. *)
C11_ConnectedAsCoded == [](C11_ReplySame /\ C11_SendSameWith(0)) /\ [][C11_SendStep]_vars

\* homa_send_connected has just started an RPC from the socket peeled off for
\* client A, after homa_reply_connected was used on that socket.
C11_Witness ==
  /\ ret.op = "homa_send_connected" /\ ret.sock \in PeeledOff /\ ret.rc = 0
  /\ \E q \in crpcs : q.sock = ret.sock /\ q.peer = "A" /\ q.cookie = 0 /\ q.state = "out"

\* ----------------------------------------------------------------- C12

\* The ids homa_send has handed to thread t, in order, and the one in the
\* args of a call of t that sendmsg has accepted and that has not returned yet.
Handed(t) == IF thr[t].pc = "copy" /\ thr[t].result >= 0 THEN Append(thr[t].got, thr[t].hdr.msg_control.id) ELSE thr[t].got

\* No two successful calls, of one thread or of two, got the same id; an id
\* handed out is not 0 and is the id of a request the engine accepted.
C12_Distinct ==
  \A t, u \in Threads : \A i \in DOMAIN Handed(t), j \in DOMAIN Handed(u) :
    /\ (t /= u \/ i /= j) => Handed(t)[i] /= Handed(u)[j]
    /\ Handed(t)[i] /= 0
    /\ \E x \in sent : x.sock = ListenFd["A"] /\ x.id = Handed(t)[i]

\* An id the engine assigns is not the id of an active RPC of the socket, nor
\* one it assigned before; ids already handed out stay as they are, in the
\* RPCs, in the callers' hands and in the record of requests.
C12_AssignStep ==
  /\ \A q \in crpcs' \ crpcs : q.state = "out" /\ q.sock \in ClientFds =>
       /\ ~ActiveClient(q.sock, q.id)
       /\ \A x \in sent : x.sock = q.sock => x.id /= q.id
  /\ \A q \in crpcs' : ActiveClient(q.sock, q.id) \/ \E x \in sent' \ sent : x.sock = q.sock /\ x.id = q.id
  /\ sent \subseteq sent'
  /\ \A t \in Threads : Len(Handed(t)') >= Len(Handed(t)) /\ SubSeq(Handed(t)', 1, Len(Handed(t))) = Handed(t)

(* C12: RpcIds are unique: in every interleaving of concurrent homa_send calls
   of several threads on one socket, the ids the successful calls return are
   pairwise distinct, no id is handed out again while its RPC is active, and
   an RPC's id never changes once assigned. *)
C12_IdsUnique == []C12_Distinct /\ [][C12_AssignStep]_vars

\* Both threads are inside homa_send, past sendmsg and before the copy to *id,
\* on the same socket, each with the id of its own request in its args.
C12_Witness ==
  /\ thr["t1"].pc = "copy" /\ thr["t2"].pc = "copy"
  /\ thr["t1"].result = 0 /\ thr["t2"].result = 0
  /\ thr["t1"].sockfd = thr["t2"].sockfd
  /\ thr["t1"].hdr.msg_control.id = 2 /\ thr["t2"].hdr.msg_control.id = 1

\* ----------------------------------------------------------------- C13

\* The control blocks an operation can set: every id with every cookie.
Controls == {SendControl(id, c) : id \in Ids, c \in Cookies \cup {0}}

\* What the engine reads as the control block of a msghdr: the record
\* msg_control points to, whatever msg_controllen says.
Decode(hdr) == hdr.msg_control

\* The msghdr carries the control block it was given, untouched; the
\* operations set the id and cookie they are meant to set, and nothing else
\* is what sendmsg reads.
C13_RoundTrip ==
  /\ \A x \in Controls, d \in Hosts \cup {NULL}, al \in AddrLens, b \in ReqBufs :
       Decode(MsgHdr(d, al, <<IoVec(b, Len(b))>>, 1, x, 0)) = x
  /\ \A c \in Cookies \cup {0}, d \in Hosts, b \in ReqBufs :
       /\ Decode(homa_send_hdr(b, Len(b), d, SockaddrLen, c)) = SendControl(0, c)
       /\ Decode(homa_sendv_hdr(Chunks(b, Len(b)), Len(b), d, SockaddrLen, c)) = SendControl(0, c)
  /\ \A id \in Ids, d \in Hosts, b \in RespBufs :
       /\ Decode(homa_reply_hdr(b, Len(b), d, SockaddrLen, id)) = SendControl(id, 0)
       /\ Decode(homa_replyv_hdr(Chunks(b, Len(b)), Len(b), d, SockaddrLen, id)) = SendControl(id, 0)

\* What the caller reads back after a send that succeeded is the id the engine
\* wrote into the control block, which is the id of the RPC it started, and
\* that RPC has the cookie the operation set.
C13_ReadBack ==
  \A fd \in ClientFds, c \in Cookies \cup {0}, b \in ReqBufs, old \in Stale :
    LET r == sendmsg(fd, homa_send_hdr(b, Len(b), "S", SockaddrLen, c))
    IN  r.rc >= 0 =>
          /\ homa_send_id(r.rc, TRUE, r.args, old) = r.args.id
          /\ r.args.id = nextId[socks[fd].host] /\ r.args.completion_cookie = c
          /\ \E q \in r.crpcs \ crpcs : q.sock = fd /\ q.id = r.args.id /\ q.cookie = c

(* C13: the control-block codec is symmetric: for every SendControl{id, cookie},
   id = 0 included, what the engine decodes from the msghdr is the block the
   operation encoded, so the engine sees the id and cookie the operation set,
   and the id the caller reads back is the one the engine wrote. *)
C13_CodecSymmetric == C13_RoundTrip /\ C13_ReadBack

\* homa_send has just returned id 1 to client A for a request sent with
\* cookie 7, and the engine holds RPC 1 with cookie 7.
C13_Witness ==
  /\ ret.op = "homa_send" /\ ret.sock = ListenFd["A"] /\ ret.rc = 0 /\ ret.idp /\ ret.idout = 1
  /\ \E q \in crpcs : q.sock = ListenFd["A"] /\ q.id = 1 /\ q.cookie = 7

\* ----------------------------------------------------------------- C14

\* Ways to hand the bytes of b to the scatter/gather calls: byte by byte, in
\* one piece, and as a first byte taken from the whole buffer plus the rest.
Splits(b) == {Chunks(b, Len(b)), <<IoVec(b, Len(b))>>, <<IoVec(b, 1), IoVec(SubSeq(b, 2, Len(b)), Len(b) - 1)>>}

\* homa_sendv with chunks that make up b hands sendmsg the control block and
\* destination homa_send with b hands it, the engine makes the same of both
\* (result, RPC, message and its payload), and the caller gets the same id.
C14_SendSame ==
  \A fd \in {ListenFd["A"]} \cup BadFd, b \in ReqBufs, d \in {"S", NULL}, al \in AddrLens, c \in {7}, idp \in BOOLEAN, old \in Stale :
    \A v \in Splits(b) :
      LET s  == homa_send_hdr(b, Len(b), d, al, c)
          w  == homa_sendv_hdr(v, Len(v), d, al, c)
          rs == sendmsg(fd, s)
          rw == sendmsg(fd, w)
      IN  /\ s.msg_control = w.msg_control /\ s.msg_name = w.msg_name /\ s.msg_namelen = w.msg_namelen
          /\ Gather(w.msg_iov, w.msg_iovlen) = b /\ Gather(s.msg_iov, s.msg_iovlen) = b
          /\ rs = rw
          /\ homa_send_id(rs.rc, idp, rs.args, old) = homa_send_id(rw.rc, idp, rw.args, old)

\* The same of homa_replyv and homa_reply, for every id.
C14_ReplySame ==
  \A fd \in {ListenFd["S"]} \cup BadFd, b \in RespBufs, d \in {"A", NULL}, al \in AddrLens, id \in Ids :
    \A v \in Splits(b) :
      LET s == homa_reply_hdr(b, Len(b), d, al, id)
          w == homa_replyv_hdr(v, Len(v), d, al, id)
      IN  /\ s.msg_control = w.msg_control /\ s.msg_name = w.msg_name /\ s.msg_namelen = w.msg_namelen
          /\ Gather(w.msg_iov, w.msg_iovlen) = b
          /\ sendmsg(fd, s) = sendmsg(fd, w)

(* C14: the single-buffer and the scatter/gather calls have the same control
   semantics: when the chunks make up the same bytes, homa_send and homa_sendv
   (and homa_reply and homa_replyv) present the same id, cookie and
   destination to the engine, deliver the same payload, and return the same
   result and id. *)
C14_VectorSame == C14_SendSame /\ C14_ReplySame

\* homa_replyv has just answered, with the bytes 3, 4 in two chunks, a request
\* client B sent, and the response is on the network as homa_reply's would be.
C14_Witness ==
  /\ ret.op = "homa_replyv" /\ ret.sock = ListenFd["S"] /\ ret.dest = "B" /\ ret.rc = 0
  /\ RespMsg(ListenFd["S"], <<3, 4>>, "B", ret.id) \in net
  /\ \E rec \in Requests : rec.peer = "B" /\ rec.id = ret.id

\* ----------------------------------------------------------------- C15

\* homa_abort(sockfd, id, 0) with id /= 0 returns 0 and leaves no RPC with that
\* id in the socket's active set, whether its response had arrived or not; the
\* other RPCs, the messages in flight and what recvmsg has returned stay.
C15_AbortOneStep ==
  ret'.op = "homa_abort" /\ ret'.id /= 0 /\ ret'.error = 0 /\ ret'.sock \in DOMAIN socks =>
    /\ ret'.rc = 0
    /\ crpcs' = {q \in crpcs : ~(q.sock = ret'.sock /\ q.id = ret'.id)}
    /\ \A q \in crpcs' : ~(q.sock = ret'.sock /\ q.id = ret'.id)
    /\ ActiveClient(ret'.sock, ret'.id) => [sock |-> ret'.sock, id |-> ret'.id, by |-> ret'.id] \in destroyed'
    /\ UNCHANGED <<socks, observed, nextId, srpcs, net, surfaced>>

\* The response to an RPC that was destroyed changes no RPC when it arrives.
C15_LateResponseStep ==
  \A m \in net \ net' : m.type = "resp" /\ (\E d \in destroyed : socks[d.sock].host = m.dst /\ d.id = m.id) => crpcs' = crpcs /\ surfaced' = surfaced

\* An RPC that homa_abort(sockfd, id, 0) ended is not active and recvmsg has
\* returned nothing for it.
C15_Gone == \A d \in destroyed : d.by /= 0 => d.by = d.id /\ ~ActiveClient(d.sock, d.id) /\ Responses(d.sock, d.id) = {}

(* C15: homa_abort(sockfd, id, 0) is race-free against the arrival of the
   response: whether the response for id arrived before the abort, arrives
   after it or never arrives, once the abort has returned no recvmsg on the
   socket returns id and the RPC is not in the socket's active set. *)
C15_AbortRaceFree == []C15_Gone /\ [][C15_AbortOneStep /\ C15_LateResponseStep]_vars

\* homa_abort(1, 1, 0) has just returned, after the server had answered client
\* A's request 1 and the response had reached A's host.
C15_Witness ==
  /\ ret.op = "homa_abort" /\ ret.sock = ListenFd["A"] /\ ret.id = 1 /\ ret.error = 0 /\ ret.rc = 0
  /\ [sock |-> ListenFd["A"], id |-> 1, by |-> 1] \in destroyed
  /\ \E rec \in Requests : rec.peer = "A" /\ rec.id = 1
  /\ \A r \in srpcs : ~(r.peer = "A" /\ r.id = 1)
  /\ \A m \in net : ~(m.dst = "A" /\ m.id = 1)

\* ----------------------------------------------------------------- C16

\* The client RPCs homa_abort(sockfd, id, error) names: the one with that id on
\* sockfd, or every one on sockfd when id is 0.
C16_Named(q, sockfd, id) == q.sock = sockfd /\ (id = 0 \/ q.id = id)

\* A successful homa_abort leaves the sockets, the incoming requests, the
\* network and the ids alone; every client RPC it does not name stays as it
\* was, no RPC appears, and with id /= 0 at most one RPC changes.
C16_AbortStep ==
  ret'.op = "homa_abort" =>
    /\ UNCHANGED <<socks, observed, nextId, srpcs, net, surfaced>>
    /\ \A q \in crpcs : ~C16_Named(q, ret'.sock, ret'.id) => q \in crpcs'
    /\ \A q \in crpcs' : q \in crpcs \/ (C16_Named(q, ret'.sock, ret'.id) /\ \E p \in crpcs : p.sock = q.sock /\ p.id = q.id)
    /\ ret'.id /= 0 => Cardinality(crpcs \ crpcs') <= 1
    /\ \A d \in destroyed' \ destroyed : C16_Named(d, ret'.sock, ret'.id)
    /\ \A x \in aborted' \ aborted : C16_Named(x, ret'.sock, ret'.id)

(* C16: homa_abort changes nothing it does not name.  homa_abort(sockfd, id, e)
   with id /= 0 changes at most the one client RPC id of sockfd;
   homa_abort(sockfd, 0, e) changes only client RPCs of sockfd.  Incoming
   requests awaiting a reply on sockfd, and every RPC of every other socket,
   peeled-off sockets included, are unchanged. *)
C16_AbortFrame == [][C16_AbortStep]_vars

\* homa_abort(child, 0, e) has just ended the request the server sent on its
\* peeled-off socket for A, while A's request is still awaiting its reply on
\* the server's listening socket and still active on A's socket.
C16_Witness ==
  /\ ret.op = "homa_abort" /\ ret.id = 0 /\ ret.rc = 0
  /\ ret.sock \in Children("S", "A")
  /\ \E d \in destroyed : d.sock = ret.sock /\ d.by = 0
  /\ \A q \in crpcs : q.sock /= ret.sock
  /\ \E r \in srpcs : r.sock = ListenFd["S"] /\ r.peer = "A"
  /\ \E q \in crpcs : q.sock = ListenFd["A"]

\* ----------------------------------------------------------------- C17

\* The socket a successful homa_peeloff returns is bound to the peer the caller
\* named.
C17_PeelStep ==
  ret'.op = "homa_peeloff" /\ ret'.rc >= 0 => ret'.rc \in DOMAIN socks' \ DOMAIN socks /\ socks'[ret'.rc].peer = ret'.dest

\* A message that arrives from a peer with a socket peeled off for it is queued
\* on that socket: a request waits there for recvmsg, and a response completes
\* its RPC there.  Nothing is queued on the listening socket.
C17_ArriveStep ==
  \A m \in net \ net' : \A c \in Children(m.dst, m.src) :
    /\ m.type = "req" => srpcs' = srpcs \cup {[sock |-> c, host |-> m.dst, peer |-> m.src, id |-> m.id, payload |-> m.payload, state |-> "ready"]}
    /\ m.type = "resp" => \A q \in crpcs' \ crpcs : q.sock = c /\ q.peer = m.src /\ q.id = m.id /\ q.state = "done"
    /\ \A q \in (srpcs' \ srpcs) \cup (crpcs' \ crpcs) : q.sock /= ListenFd[m.dst]

\* What is queued stays on its socket; an RPC changes socket only when its
\* response arrives.
C17_StayStep ==
  /\ \A r \in srpcs, q \in srpcs' : r.host = q.host /\ r.peer = q.peer /\ r.id = q.id => q.sock = r.sock
  /\ \A r \in crpcs, q \in crpcs' : r.host = q.host /\ r.id = q.id /\ q.sock /= r.sock => r.state = "out" /\ q.state = "done" /\ net' /= net

\* recvmsg on a socket returns what is queued on that socket.
C17_RecvStep ==
  \A rec \in BagToSet(surfaced') : CopiesIn(rec, surfaced') > CopiesIn(rec, surfaced) =>
    /\ rec.kind = "request" => \E r \in srpcs : r.sock = rec.sock /\ r.peer = rec.peer /\ r.id = rec.id /\ r.state = "ready"
    /\ rec.kind = "response" => \E q \in crpcs : q.sock = rec.sock /\ q.peer = rec.peer /\ q.id = rec.id /\ q.state = "done"

\* On a peeled-off socket only its peer's messages are queued, and only they
\* have been returned by recvmsg.
C17_OnlyPeer ==
  /\ \A r \in srpcs \cup crpcs : r.sock \in PeeledOff => r.peer = socks[r.sock].peer
  /\ \A rec \in BagToSet(surfaced) : rec.sock \in PeeledOff => rec.peer = socks[rec.sock].peer

(* C17: after a successful homa_peeloff of peer P from a listening socket, every
   message from P that arrives afterwards is returned only by recvmsg on the new
   socket, never by recvmsg on the listening socket, and no message from a peer
   other than P is ever returned on the new socket. *)
C17_PeelOffRouting == []C17_OnlyPeer /\ [][C17_PeelStep /\ C17_ArriveStep /\ C17_StayStep /\ C17_RecvStep]_vars

\* The server asked client A something on its listening socket, then peeled A
\* off; A's answer arrived afterwards and recvmsg has returned it on the
\* peeled-off socket.
C17_Witness ==
  \E c \in Children("S", "A") : \E rec \in AllResponses :
    /\ rec.sock = c /\ rec.peer = "A" /\ rec.payload /= <<>>
    /\ \E x \in sent : x.sock = ListenFd["S"] /\ x.id = rec.id

\* ----------------------------------------------------------------- C18

\* The outcomes of the one primitive call a library function makes for the
\* socket, address, id and error it was given, over the buffers, lengths and
\* cookies a caller may pass with them.
C18_Primitive(op, sockfd, dest, id, error) ==
  CASE op = "homa_send" -> {sendmsg(sockfd, homa_send_hdr(b, Len(b), dest, al, c)) : b \in ReqBufs, al \in AddrLens, c \in Cookies}
    [] op = "homa_sendv" -> {sendmsg(sockfd, homa_sendv_hdr(v, Len(v), dest, al, c)) : v \in ReqIovs, al \in AddrLens, c \in Cookies}
    [] op = "homa_reply" -> {sendmsg(sockfd, homa_reply_hdr(b, Len(b), dest, al, id)) : b \in RespBufs, al \in AddrLens}
    [] op = "homa_replyv" -> {sendmsg(sockfd, homa_replyv_hdr(v, Len(v), dest, al, id)) : v \in RespIovs, al \in AddrLens}
    [] op = "homa_abort" -> {ioctl_abort(sockfd, homa_abort_args(id, error))}
    [] op = "homa_reply_connected" -> {sendmsg(sockfd, homa_reply_connected_hdr(b, Len(b), id)) : b \in RespBufs}
    [] op = "homa_send_connected" -> {sendmsg(sockfd, homa_send_connected_hdr(b, Len(b))) : b \in ReqBufs}
    [] op = "homa_peeloff" -> {getsockopt_peeloff(sockfd, homa_peeloff_opt(dest, al).optval, homa_peeloff_opt(dest, al).optlen) : al \in AddrLens}

\* A library call is one call of its primitive: what it returns is that call's
\* return value, with the errno the primitive set when it failed, and the
\* engine is as that one call left it.
C18_OnceStep ==
  ret'.op /= "" =>
    \E r \in C18_Primitive(ret'.op, ret'.sock, ret'.dest, ret'.id, ret'.error) :
      /\ ret'.rc = r.rc
      /\ r.rc < 0 => ret'.rc = -1 /\ ret'.errno = r.errno /\ r.errno /= ""
      /\ crpcs' = r.crpcs /\ srpcs' = r.srpcs /\ net' = r.net /\ nextId' = r.nextId /\ socks' = r.socks

\* A call that fails changes nothing: no RPC, no message, no id, no socket, and
\* nothing recvmsg returns.
C18_FailStep == ret'.op /= "" /\ ret'.rc < 0 => UNCHANGED <<engine, surfaced, history, thr>>

\* A call starts at most one RPC and puts at most one message on the network.
C18_NoRetryStep == ret'.op /= "" => Issued(nextId') <= Issued(nextId) + 1 /\ Cardinality(net' \ net) <= 1 /\ (ret'.op /= "homa_abort" => Cardinality(crpcs' \ crpcs) <= 1)

(* C18: every operation is one self-contained call.  homa_send, homa_reply,
   homa_sendv, homa_replyv, homa_send_connected, homa_reply_connected,
   homa_abort and homa_peeloff each call their primitive exactly once, return
   its failure to the caller unchanged, never retry and keep no state between
   calls: a failed call leaves nothing behind that a later call could observe. *)
C18_SelfContained == [][C18_OnceStep /\ C18_FailStep /\ C18_NoRetryStep]_vars

\* homa_send_connected on a descriptor that is no socket has just failed with
\* EBADF, with a request of client A in service at the server and a socket
\* peeled off for A.
C18_Witness ==
  /\ ret.op = "homa_send_connected" /\ ret.sock \in BadFd /\ ret.rc = -1 /\ ret.errno = "EBADF"
  /\ Children("S", "A") /= {}
  /\ \E r \in srpcs : r.peer = "A" /\ r.state = "inservice"

\* ----------------------------------------------------------------- C20

\* recvmsg has returned the outcome of a client RPC at most once, and it is
\* either a response or an error with no payload.
C20_OneOutcome ==
  \A rec \in AllResponses :
    /\ CopiesIn(rec, surfaced) = 1
    /\ Responses(rec.sock, rec.id) = {rec}
    /\ (rec.error = 0) /= (rec.payload = <<>>)
    /\ rec.error /= 0 => [sock |-> rec.sock, id |-> rec.id, error |-> rec.error] \in aborted

\* An RPC whose outcome recvmsg has returned, or that homa_abort with error 0
\* destroyed, is not active, and a destroyed one has no outcome.
C20_Released ==
  /\ \A rec \in AllResponses : ~ActiveClient(rec.sock, rec.id)
  /\ \A d \in destroyed : ~ActiveClient(d.sock, d.id) /\ Responses(d.sock, d.id) = {}

\* Every RPC seen so far was started by an accepted request under an id the
\* allocator has passed, one RPC per id.
C20_Issued ==
  /\ \A q \in crpcs : q.id \in 1 .. (nextId[q.host] - 1) /\ \E x \in sent : x.sock = q.sock /\ x.id = q.id
  /\ \A q, p \in crpcs : q.sock = p.sock /\ q.id = p.id => q = p
  /\ \A x \in sent : x.id \in 1 .. (nextId[socks[x.sock].host] - 1)
  /\ \A rec \in AllResponses : \E x \in sent : x.sock = rec.sock /\ x.id = rec.id

\* A new RPC takes the allocator's next id, which no earlier RPC of the host
\* had; an RPC that has left the active set never comes back.
C20_NoReuseStep ==
  /\ \A q \in crpcs' : (\A p \in crpcs : ~(p.sock = q.sock /\ p.id = q.id)) =>
       /\ q.id = nextId[q.host] /\ nextId'[q.host] = q.id + 1
       /\ \A x \in sent : ~(socks[x.sock].host = q.host /\ x.id = q.id)
       /\ Responses(q.sock, q.id) = {} /\ \A d \in destroyed : ~(d.sock = q.sock /\ d.id = q.id)
  /\ \A h \in Hosts : nextId'[h] >= nextId[h]

(* C20: each client RPC has at most one terminal outcome.  Over every
   interleaving of homa_send, the arrival of the response, homa_abort(id, e)
   and homa_abort(0, e), recvmsg on the requester's socket returns an id at most
   once, with the response or with an abort error and never both; after that,
   or after homa_abort with error 0 destroyed the RPC, the id is not active, and
   no later RPC takes it. *)
C20_OneTerminalOutcome == [](C20_OneOutcome /\ C20_Released /\ C20_Issued) /\ [][C20_NoReuseStep]_vars

\* Client A's RPC 1 ended with the server's response and its RPC 2 with error
\* 5, from a homa_abort made after the server had answered it too; recvmsg has
\* returned both outcomes.
C20_Witness ==
  /\ \E rec \in Responses(ListenFd["A"], 1) : rec.error = 0 /\ rec.payload /= <<>>
  /\ \E rec \in Responses(ListenFd["A"], 2) : rec.error = 5 /\ rec.payload = <<>>
  /\ \E rec \in Requests : rec.peer = "A" /\ rec.id = 2
  /\ \A r \in srpcs : ~(r.peer = "A" /\ r.id = 2)

====
